---------------------------- MODULE Spec2Model ----------------------------
(***************************************************************************)
(* One POST /api/search request served by webapp-integration.py and the    *)
(* find_company_controllers call of opencorporates-agent.py that it        *)
(* drives: jurisdiction resolution, the search call, the loop over the     *)
(* first three hits with one officer fetch per usable hit, and the         *)
(* assembled result.  The registry is the environment: each HTTP call is   *)
(* answered by any of a set of transport outcomes and JSON bodies.         *)
(***************************************************************************)
EXTENDS Integers, Sequences, FiniteSets, TLC

(***************************************************************************)
(* Bounds of the model.                                                    *)
(***************************************************************************)
\* Longest list of hits the registry answers a search with.
MaxHits == 4
\* Longest list of officers the registry answers an officer fetch with.
MaxOfficers == 1
\* Longest list of hits in the specification that explores every hint.
MaxHitsHints == 1

(***************************************************************************)
(* Python and JSON values.  A value is a record tagged by t; a JSON object *)
(* is the sequence of its <<key, value>> members, a str a TLA+ string.     *)
(***************************************************************************)
None == [t |-> "null"]
JStr(s) == [t |-> "str", v |-> s]
JNum(n) == [t |-> "num", v |-> n]
JList(s) == [t |-> "list", v |-> s]
JObj(members) == [t |-> "obj", v |-> members]
EmptyDict == JObj(<<>>)
EmptyList == JList(<<>>)

\* bool(x) of Python for the values above.
Truthy(x) ==
    CASE x.t = "null" -> FALSE
      [] x.t = "str"  -> x.v # ""
      [] x.t = "num"  -> x.v # 0
      [] OTHER        -> x.v # <<>>

\* Outcome of evaluating an expression: a value, or a raised exception.
Ret(v) == [exc |-> "none", val |-> v]
Raise(e) == [exc |-> e]

Keys(d) == {d.v[k][1] : k \in 1..Len(d.v)}
Lookup(d, key) == LET k == CHOOSE k \in 1..Len(d.v) : d.v[k][1] = key IN d.v[k][2]

\* x.get(key, default): only a dict has .get.
DictGet(x, key, default) ==
    IF x.t # "obj" THEN Raise("AttributeError")
    ELSE IF key \in Keys(x) THEN Ret(Lookup(x, key))
    ELSE Ret(default)

\* `sub in s` for two strs: s has sub as a substring.
Contains(s, sub) ==
    \E k \in 1..(Len(s) - Len(sub) + 1) : SubSeq(s, k, k + Len(sub) - 1) = sub

\* `key in x`, for the bodies json() can return: TypeError on None and on a
\* number, a substring test on a str, element membership on a list, key
\* membership on a dict.
PyIn(key, x) ==
    CASE x.t \in {"null", "num"} -> Raise("TypeError")
      [] x.t = "str"  -> Ret(Contains(x.v, key))
      [] x.t = "list" -> Ret(\E k \in 1..Len(x.v) : x.v[k] = JStr(key))
      [] x.t = "obj"  -> Ret(key \in Keys(x))
      [] OTHER        -> Raise("TypeError")


(***************************************************************************)
(* The registry's answers to one HTTP GET, as requests.get sees them.      *)
(***************************************************************************)
\* Answers that end in an exception inside _make_request's try: no
\* connection, a non-2xx status, and a 2xx body that is no JSON.  For the
\* last, response.json() raises requests' JSONDecodeError, a
\* RequestException, with requests 2.27 or later and a plain ValueError
\* before; the repository pins no version, so either can be what is raised.
Failures == {[kind |-> "ConnectionError"], [kind |-> "HTTPError"],
             [kind |-> "JSONDecodeError"], [kind |-> "ValueError"]}
Ok(body) == [kind |-> "ok", json |-> body]

Company(name, jurisdiction, number) ==
    JObj(<< <<"company", JObj(<< <<"name", JStr(name)>>,
                                 <<"jurisdiction_code", jurisdiction>>,
                                 <<"company_number", number>> >>)>> >>)

\* The hits a search answer is built from: two complete records, a record
\* with a null jurisdiction code, one with an empty company number, and an
\* element that is no object at all.
Hits == {Company("Acme Inc", JStr("us_ca"), JStr("C1")),
         Company("Acme LLC", JStr("us_il"), JStr("C2")),
         Company("Acme Co", None, JStr("C3")),
         Company("Acme Ltd", JStr("us_ca"), JStr("")),
         JStr("junk")}

RECURSIVE SeqsUpTo(_, _)
SeqsUpTo(S, n) ==
    IF n = 0 THEN {<<>>}
    ELSE LET shorter == SeqsUpTo(S, n - 1)
         IN shorter \cup {Append(s, x) : s \in {q \in shorter : Len(q) = n - 1}, x \in S}

Results(key, value) == JObj(<< <<"results", JObj(<< <<key, value>> >>)>> >>)

\* Bodies of unexpected shape, shared by both endpoints: null, a list, a
\* string, an object that carries "error", and a null where the list
\* should be.
OddBodies(key) ==
    {None, EmptyList, JStr("an error occurred"),
     JObj(<< <<"error", JStr("rate limited")>> >>),
     Results(key, None)}

\* Further bodies of unexpected shape, tried on the search endpoint; among
\* them a number, a str and a dict where the list of hits should be.
OddSearchBodies ==
    {JNum(5), EmptyDict, JStr("abc"), JStr(""),
     JObj(<< <<"results", None>> >>),
     JObj(<< <<"results", EmptyDict>> >>),
     Results("companies", JNum(5)),
     Results("companies", JStr("")),
     Results("companies", JStr("ab")),
     Results("companies", JStr("abcd")),
     Results("companies", JObj(<< <<"a", JNum(1)>> >>))}

SearchResponsesUpTo(n) ==
    Failures \cup {Ok(b) : b \in OddBodies("companies") \cup OddSearchBodies}
             \cup {Ok(Results("companies", JList(h))) : h \in SeqsUpTo(Hits, n)}
SearchResponses == SearchResponsesUpTo(MaxHits)

Officer(k) == JObj(<< <<"officer", JObj(<< <<"name", JStr("Officer")>>,
                                           <<"position", JStr("director")>>,
                                           <<"id", JNum(k)>> >>)>> >>)

OfficerResponses ==
    Failures \cup {Ok(b) : b \in OddBodies("officers")}
             \cup {Ok(Results("officers", JList([k \in 1..n |-> Officer(k)]))) :
                      n \in 0..MaxOfficers}

(***************************************************************************)
(* OpenCorporatesAgent, opencorporates-agent.py                            *)
(***************************************************************************)
\* _make_request, lines 39-45: the GET that goes out, with the API token
\* added to the parameters when one is configured.
Get(call, token) ==
    [endpoint |-> call.endpoint,
     params |-> IF Truthy(token) THEN Append(call.params, <<"api_token", token>>)
                ELSE call.params]

\* A slip in _make_request: the except branch falls off the end and the
\* caller receives None instead of {"error": ...}.
make_request_returns_none(resp) ==
    CASE resp.kind = "ok" -> Ret(resp.json)
      [] resp.kind = "ValueError" -> Raise("ValueError")
      [] OTHER -> Ret(None)

\* _make_request, lines 47-55: a RequestException (a connection error, a
\* non-2xx status, requests' JSONDecodeError) becomes {"error": str(e)}; any
\* other exception is not caught; otherwise the decoded body is returned,
\* whatever its shape.
_make_request(resp) ==
    CASE resp.kind = "ok" -> Ret(resp.json)
      [] resp.kind = "ValueError" -> Raise("ValueError")
      [] OTHER -> Ret(JObj(<< <<"error", JStr(resp.kind)>> >>))

\* search_companies, lines 74-80, on the dict _make_request returned.
ParseCompanies(body) ==
    LET e == PyIn("error", body) IN
    IF e.exc # "none" THEN Raise(e.exc)
    ELSE IF e.val THEN Ret(EmptyList)
    ELSE LET r == DictGet(body, "results", EmptyDict) IN
         IF r.exc # "none" THEN Ret(EmptyList)
         ELSE LET c == DictGet(r.val, "companies", EmptyList) IN
              IF c.exc # "none" THEN Ret(EmptyList) ELSE c

\* search_companies, lines 72-80, given the registry's answer to its GET.
search_companies(resp) ==
    LET m == _make_request(resp) IN
    IF m.exc # "none" THEN Raise(m.exc) ELSE ParseCompanies(m.val)

\* The request half of search_companies (lines 68-72): the GET it issues.
SearchCall(query, code) ==
    [endpoint |-> <<JStr("companies"), JStr("search")>>,
     params |-> IF Truthy(code) THEN << <<"q", query>>, <<"jurisdiction_code", code>> >>
                ELSE << <<"q", query>> >>]

\* get_company_officers, lines 118-124, on the dict _make_request returned.
ParseOfficers(body) ==
    LET e == PyIn("error", body) IN
    IF e.exc # "none" THEN Raise(e.exc)
    ELSE IF e.val THEN Ret(EmptyList)
    ELSE LET r == DictGet(body, "results", EmptyDict) IN
         IF r.exc # "none" THEN Ret(EmptyList)
         ELSE LET c == DictGet(r.val, "officers", EmptyList) IN
              IF c.exc # "none" THEN Ret(EmptyList) ELSE c

\* get_company_officers, lines 116-124, given the registry's answer to its GET.
get_company_officers(resp) ==
    LET m == _make_request(resp) IN
    IF m.exc # "none" THEN Raise(m.exc) ELSE ParseOfficers(m.val)

\* The request half of get_company_officers (lines 115-116).
OfficersCall(jurisdiction, number) ==
    [endpoint |-> <<JStr("companies"), jurisdiction, number, JStr("officers")>>,
     params |-> <<>>]

\* str.lower() on one character (ASCII letters; others are unchanged).
Upper == "ABCDEFGHIJKLMNOPQRSTUVWXYZ"
LowerCase == "abcdefghijklmnopqrstuvwxyz"
LowerChar(c) ==
    IF \E k \in 1..Len(Upper) : SubSeq(Upper, k, k) = c
    THEN LET k == CHOOSE k \in 1..Len(Upper) : SubSeq(Upper, k, k) = c
         IN SubSeq(LowerCase, k, k)
    ELSE c

\* A slip in the resolution: the hint is looked up without .lower().
Lower_omitted(s) == s

\* str.lower().
RECURSIVE Lower(_)
Lower(s) ==
    IF s = "" THEN ""
    ELSE LowerChar(SubSeq(s, 1, 1)) \o Lower(SubSeq(s, 2, Len(s)))

\* The state_codes table of find_company_controllers.
state_codes ==
    << <<"california", JStr("us_ca")>>,
       <<"ca", JStr("us_ca")>>,
       <<"illinois", JStr("us_il")>>,
       <<"il", JStr("us_il")>> >>

\* Lines 139-149: the hint's jurisdiction code, None when there is none;
\* AttributeError for a truthy hint that is no str and has no .lower().
ResolveJurisdiction(hint) ==
    IF ~Truthy(hint) THEN Ret(None)
    ELSE IF hint.t # "str" THEN Raise("AttributeError")
    ELSE LET key == Lower(hint.v)
             rows == {k \in 1..Len(state_codes) : state_codes[k][1] = key}
         IN IF rows = {} THEN Ret(None)
            ELSE Ret(state_codes[CHOOSE k \in rows : TRUE][2])

\* The number of hits find_company_controllers looks at (companies[:3]).
TopN == 3
Min(a, b) == IF a < b THEN a ELSE b

\* A slip in the loop header: the whole list is iterated, not companies[:3].
Slice_uncapped(companies) ==
    CASE companies.t = "list" -> {Ret(companies.v)}
      [] companies.t = "str" ->
            {Ret([k \in 1..Len(companies.v) |-> JStr(SubSeq(companies.v, k, k))])}
      [] companies.t = "obj" -> {Raise("TypeError"), Raise("KeyError")}
      [] OTHER -> {Raise("TypeError")}

\* The outcomes of evaluating companies[:3] in `for company_data in
\* companies[:3]`, for a companies that passed `if not companies`: the first
\* three elements of a list, the first three characters of a str; TypeError
\* for a number, which cannot be subscripted.  Subscripting a dict with a
\* slice raises TypeError up to Python 3.11, where a slice is unhashable, and
\* KeyError from Python 3.12 on, where it is a key the dict does not have;
\* the repository pins no Python version, so either can be what is raised.
Slice(companies) ==
    CASE companies.t = "list" ->
            {Ret(SubSeq(companies.v, 1, Min(TopN, Len(companies.v))))}
      [] companies.t = "str" ->
            {Ret([k \in 1..Min(TopN, Len(companies.v)) |-> JStr(SubSeq(companies.v, k, k))])}
      [] companies.t = "obj" -> {Raise("TypeError"), Raise("KeyError")}
      [] OTHER -> {Raise("TypeError")}

\* A slip in line 170: only the jurisdiction is tested before the fetch.
ReadHit_jurisdiction_only(company_data) ==
    LET c == DictGet(company_data, "company", EmptyDict) IN
    IF c.exc # "none" THEN Raise(c.exc)
    ELSE LET j == DictGet(c.val, "jurisdiction_code", None) IN
         IF j.exc # "none" THEN Raise(j.exc)
         ELSE LET n == DictGet(c.val, "company_number", None) IN
              Ret([company |-> c.val, jurisdiction |-> j.val, company_number |-> n.val,
                   fetch |-> Truthy(j.val)])

\* Lines 166-170 for one hit: the exception raised, or the two fields read
\* and whether both are truthy.
ReadHit(company_data) ==
    LET c == DictGet(company_data, "company", EmptyDict) IN
    IF c.exc # "none" THEN Raise(c.exc)
    ELSE LET j == DictGet(c.val, "jurisdiction_code", None) IN
         IF j.exc # "none" THEN Raise(j.exc)
         ELSE LET n == DictGet(c.val, "company_number", None) IN
              Ret([company |-> c.val, jurisdiction |-> j.val, company_number |-> n.val,
                   fetch |-> Truthy(j.val) /\ Truthy(n.val)])

\* Lines 175-183: the entry appended for a hit whose officers were fetched.
Entry(company, jurisdiction, number, officers) ==
    [company_name |-> DictGet(company, "name", None).val,
     jurisdiction |-> jurisdiction,
     company_number |-> number,
     incorporation_date |-> DictGet(company, "incorporation_date", None).val,
     company_type |-> DictGet(company, "company_type", None).val,
     current_status |-> DictGet(company, "current_status", None).val,
     officers |-> officers]

\* str(n) for the counts a message can carry.
ToStr(n) == CASE n = 0 -> "0" [] n = 1 -> "1" [] n = 2 -> "2" [] n = 3 -> "3"
              [] n = 4 -> "4" [] n = 5 -> "5" [] OTHER -> "many"

\* Lines 155-159.
NotFound(name) ==
    [status |-> "not_found",
     message |-> <<"No companies found matching '", name.v, "'">>,
     results |-> <<>>]

\* A slip in line 188: success needs more than one entry.
Status_off_by_one(rs) == IF Len(rs) > 1 THEN "success" ELSE "partial_results"

\* Lines 187-191.
Status(rs) == IF rs # <<>> THEN "success" ELSE "partial_results"
Found(name, rs) ==
    [status |-> Status(rs),
     message |-> <<"Found ", ToStr(Len(rs)), " potential matches for '", name.v, "'">>,
     results |-> rs]

(***************************************************************************)
(* The state: the agent's API token, the POST /api/search request, the     *)
(* handler's position, the locals of find_company_controllers, the GETs    *)
(* issued so far and the registry's answer to the latest one, how the call *)
(* ended (outcome) and what the handler answered (reply).                  *)
(***************************************************************************)
VARIABLES api_token, request, pc, company_name, jurisdiction_hint, jurisdiction_code,
          calls, response, companies, i, results, outcome, reply

vars == <<api_token, request, pc, company_name, jurisdiction_hint, jurisdiction_code,
          calls, response, companies, i, results, outcome, reply>>

\* company_name members a request body can carry.
Names == {None, JStr(""), JStr("Acme")}

\* jurisdiction members a request body can carry: strs, null, and a number.
HintValues ==
    {None, JStr(""), JStr("CA"), JStr("ca"), JStr("California"), JStr("CALIFORNIA"),
     JStr("IL"), JStr("illinois"), JStr("TX"), JNum(5)}

\* The JSON body {"company_name": name, "jurisdiction": hint}.
Body(name, hint) == JObj(<< <<"company_name", name>>, <<"jurisdiction", hint>> >>)

\* JSON bodies that lack the members or are no object.
OddRequests == {EmptyDict, JObj(<< <<"jurisdiction", JStr("CA")>> >>), None, EmptyList,
                JStr("Acme")}

\* The tokens the agent can be constructed with (None: not configured).
Tokens == {None, JStr("token")}

InitFrom(tokens, requests) ==
    /\ api_token \in tokens
    /\ request \in requests
    /\ pc = "handler"
    /\ company_name = None
    /\ jurisdiction_hint = None
    /\ jurisdiction_code = None
    /\ calls = <<>>
    /\ response = [kind |-> "none"]
    /\ companies = None
    /\ i = 0
    /\ results = <<>>
    /\ outcome = [kind |-> "pending"]
    /\ reply = [status |-> 0]

\* No token; requests with and without a company name, with the hint "CA",
\* and the bodies that lack the members or are no object.
Init == InitFrom({None}, {Body(n, JStr("CA")) : n \in Names} \cup OddRequests)

\* With and without a token; requests with a company name and every hint,
\* none included.
InitHints == InitFrom(Tokens, {Body(JStr("Acme"), h) : h \in HintValues})

\* What Flask answers when the view function returns jsonify(value), returns
\* (jsonify(value), 400), or lets an exception escape.
Json200(value) == [status |-> 200, body |-> value]
Json400(message) == [status |-> 400, body |-> [error |-> message]]
Http500 == [status |-> 500]

\* webapp-integration.py, search_company, lines 23-30, up to the call of
\* the agent: data.get raises AttributeError when the JSON body is no
\* object, and the exception escapes the view function.
search_company ==
    /\ pc = "handler"
    /\ LET name == DictGet(request, "company_name", None)
           hint == DictGet(request, "jurisdiction", None)
       IN IF name.exc # "none"
          THEN /\ reply' = Http500
               /\ pc' = "done"
               /\ UNCHANGED <<company_name, jurisdiction_hint>>
          ELSE IF ~Truthy(name.val)
          THEN /\ reply' = Json400("Company name is required")
               /\ pc' = "done"
               /\ UNCHANGED <<company_name, jurisdiction_hint>>
          ELSE /\ company_name' = name.val
               /\ jurisdiction_hint' = hint.val
               /\ pc' = "resolve"
               /\ UNCHANGED reply
    /\ UNCHANGED <<api_token, request, jurisdiction_code, calls, response, companies, i,
                   results, outcome>>

\* find_company_controllers, lines 139-149.  An exception raised here is
\* not caught anywhere and ends the request.
resolve_jurisdiction ==
    /\ pc = "resolve"
    /\ LET code == ResolveJurisdiction(jurisdiction_hint) IN
       IF code.exc # "none"
       THEN /\ outcome' = [kind |-> "raised", exc |-> code.exc]
            /\ reply' = Http500
            /\ pc' = "done"
            /\ UNCHANGED jurisdiction_code
       ELSE /\ jurisdiction_code' = code.val
            /\ pc' = "search"
            /\ UNCHANGED <<outcome, reply>>
    /\ UNCHANGED <<api_token, request, company_name, jurisdiction_hint, calls, response,
                   companies, i, results>>

\* find_company_controllers, lines 152-164: the search call, the not_found
\* return, and the slice the loop runs over.  An exception raised here is
\* not caught anywhere and ends the request.
search_from(responses) ==
    /\ pc = "search"
    /\ \E resp \in responses :
         LET found == search_companies(resp) IN
         /\ calls' = Append(calls, Get(SearchCall(company_name, jurisdiction_code),
                                       api_token))
         /\ response' = resp
         /\ IF found.exc # "none"
            THEN /\ outcome' = [kind |-> "raised", exc |-> found.exc]
                 /\ reply' = Http500
                 /\ pc' = "done"
                 /\ UNCHANGED <<companies, i>>
            ELSE IF ~Truthy(found.val)
            THEN /\ companies' = found.val
                 /\ outcome' = [kind |-> "returned", value |-> NotFound(company_name)]
                 /\ reply' = Json200(NotFound(company_name))
                 /\ pc' = "done"
                 /\ UNCHANGED i
            ELSE \E top \in Slice(found.val) :
                 IF top.exc # "none"
                 THEN /\ companies' = found.val
                      /\ outcome' = [kind |-> "raised", exc |-> top.exc]
                      /\ reply' = Http500
                      /\ pc' = "done"
                      /\ UNCHANGED i
                 ELSE /\ companies' = found.val
                      /\ i' = 1
                      /\ pc' = "loop"
                      /\ UNCHANGED <<outcome, reply>>
    /\ UNCHANGED <<api_token, request, company_name, jurisdiction_hint, jurisdiction_code,
                   results>>

search == search_from(SearchResponses)
search_hints == search_from(SearchResponsesUpTo(MaxHitsHints))

\* The hits the loop runs over: companies[:3] of the list or str the loop
\* was entered with, which has one outcome.
Top == (CHOOSE top \in Slice(companies) : TRUE).val

\* find_company_controllers, lines 164-185: one iteration of the loop.  Every
\* exception of the body is caught and the hit contributes nothing.
process_candidate ==
    /\ pc = "loop"
    /\ i <= Len(Top)
    /\ LET hit == ReadHit(Top[i]) IN
       IF hit.exc # "none" \/ ~hit.val.fetch
       THEN UNCHANGED <<calls, response, results>>
       ELSE \E resp \in OfficerResponses :
              LET officers == get_company_officers(resp) IN
              /\ calls' = Append(calls, Get(OfficersCall(hit.val.jurisdiction,
                                                         hit.val.company_number),
                                            api_token))
              /\ response' = resp
              /\ results' = IF officers.exc # "none" THEN results
                            ELSE Append(results, Entry(hit.val.company, hit.val.jurisdiction,
                                                       hit.val.company_number, officers.val))
    /\ i' = i + 1
    /\ UNCHANGED <<api_token, request, pc, company_name, jurisdiction_hint, jurisdiction_code,
                   companies, outcome, reply>>

\* find_company_controllers, lines 187-191, and the handler's jsonify(result).
return_result ==
    /\ pc = "loop"
    /\ i > Len(Top)
    /\ outcome' = [kind |-> "returned", value |-> Found(company_name, results)]
    /\ reply' = Json200(Found(company_name, results))
    /\ pc' = "done"
    /\ UNCHANGED <<api_token, request, company_name, jurisdiction_hint, jurisdiction_code, calls,
                   response, companies, i, results>>

Next ==
    \/ search_company
    \/ resolve_jurisdiction
    \/ search
    \/ process_candidate
    \/ return_result

Spec == Init /\ [][Next]_vars

\* The same program over every jurisdiction hint and short search answers.
NextHints ==
    \/ search_company
    \/ resolve_jurisdiction
    \/ search_hints
    \/ process_candidate
    \/ return_result

SpecHints == InitHints /\ [][NextHints]_vars

(***************************************************************************)
(* Vocabulary of the properties, stated on the registry's data and not     *)
(* through the operators above.                                            *)
(***************************************************************************)
Returned == outcome.kind = "returned"

\* The members of the request body; null when the body has no such member.
Member(key) ==
    IF request.t = "obj" /\ key \in Keys(request) THEN Lookup(request, key) ELSE None
NameGiven == Member("company_name").t = "str" /\ Member("company_name").v # ""
\* The hint is what find_company_controllers declares: a str or None.
HintIsStr == Member("jurisdiction").t \in {"str", "null"}

\* The candidates the search step returned: the elements of the list (the
\* characters, when the registry put a string where the list should be).
Candidates ==
    CASE companies.t = "list" -> companies.v
      [] companies.t = "str" -> [k \in 1..Len(companies.v) |-> JStr(SubSeq(companies.v, k, k))]
      [] OTHER -> <<>>
FirstThree == SubSeq(Candidates, 1, IF Len(Candidates) < 3 THEN Len(Candidates) ELSE 3)

\* A field of a hit's company record; null when the hit has no such field.
Field(hit, key) ==
    IF /\ hit.t = "obj"
       /\ "company" \in Keys(hit)
       /\ Lookup(hit, "company").t = "obj"
       /\ key \in Keys(Lookup(hit, "company"))
    THEN Lookup(Lookup(hit, "company"), key)
    ELSE None

\* A field is carried when it is there and not empty.
Carried(v) == v.t = "str" /\ v.v # ""
HasBoth(hit) ==
    Carried(Field(hit, "jurisdiction_code")) /\ Carried(Field(hit, "company_number"))
Identity(hit) == <<Field(hit, "jurisdiction_code"), Field(hit, "company_number")>>
EntryIdentity(e) == <<e.jurisdiction, e.company_number>>

\* The identities of the first n hits that carry both fields, in hit order.
UsableAmong(n) ==
    LET usable == SelectSeq(SubSeq(FirstThree, 1, n), HasBoth)
    IN [k \in 1..Len(usable) |-> Identity(usable[k])]

IsSearchCall(c) == c.endpoint = <<JStr("companies"), JStr("search")>>
FetchCallFor(id) ==
    [endpoint |-> <<JStr("companies"), id[1], id[2], JStr("officers")>>,
     params |-> IF api_token = None THEN <<>> ELSE << <<"api_token", api_token>> >>]

\* The value a call's query string gives a parameter; null when it has none.
Param(c, key) ==
    IF \E k \in 1..Len(c.params) : c.params[k][1] = key
    THEN c.params[CHOOSE k \in 1..Len(c.params) : c.params[k][1] = key][2]
    ELSE None

TransportFailure(r) == r.kind \in {"ConnectionError", "HTTPError"}
Undecodable(r) == r.kind \in {"JSONDecodeError", "ValueError"}
WellFormed(body, key) ==
    /\ body.t = "obj"
    /\ "error" \notin Keys(body)
    /\ "results" \in Keys(body)
    /\ Lookup(body, "results").t = "obj"
    /\ key \in Keys(Lookup(body, "results"))
    /\ Lookup(Lookup(body, "results"), key).t = "list"

\* The number of hits the loop is through with.
Processed == IF pc = "loop" THEN i - 1 ELSE Len(FirstThree)

(***************************************************************************)
(* C1.  A returned status is one of success, partial_results, not_found;   *)
(* it is not_found iff the search step returned no candidate, success iff  *)
(* results has an entry, partial_results iff there were candidates and     *)
(* results is empty.                                                       *)
(***************************************************************************)
C1_StatusClassification ==
    Returned =>
        LET r == outcome.value IN
        /\ r.status \in {"success", "partial_results", "not_found"}
        /\ (r.status = "not_found") <=> (Len(Candidates) = 0)
        /\ (r.status = "success") <=> (r.results # <<>>)
        /\ (r.status = "partial_results") <=> (Len(Candidates) >= 1 /\ r.results = <<>>)

\* Candidates were returned, none was usable, and the call returned.
C1_Witness ==
    /\ Returned
    /\ Len(Candidates) >= 2
    /\ outcome.value.status = "partial_results"

(***************************************************************************)
(* C2.  results never holds more than 3 entries, however many hits the     *)
(* search step returned.                                                   *)
(***************************************************************************)
C2_ResultsCap ==
    /\ Len(results) <= 3
    /\ Returned => Len(outcome.value.results) <= 3

\* More than three hits, all usable, three entries returned.
C2_Witness ==
    /\ Returned
    /\ Len(Candidates) > 3
    /\ \A k \in 1..Len(Candidates) : HasBoth(Candidates[k])
    /\ Len(outcome.value.results) = 3

(***************************************************************************)
(* C3.  The returned results are, in hit order, one entry for each of the  *)
(* first three hits that carries both fields, and nothing else; every      *)
(* entry has a jurisdiction and a company number.                          *)
(***************************************************************************)
C3_EntriesMatchUsableHits ==
    (pc = "done" /\ Returned) =>
        LET rs == outcome.value.results IN
        /\ \A k \in 1..Len(rs) : rs[k].jurisdiction # None /\ rs[k].company_number # None
        /\ [k \in 1..Len(rs) |-> EntryIdentity(rs[k])] = UsableAmong(Len(FirstThree))

(***************************************************************************)
(* C4.  When the search call fails in transport, is answered with a        *)
(* non-2xx status, or is answered with no hits, the call returns           *)
(* not_found with the message naming the company and no results, and the   *)
(* search call is the only call issued.                                    *)
(***************************************************************************)
SearchCameBackEmpty ==
    /\ Len(calls) = 1
    /\ \/ TransportFailure(response)
       \/ response = Ok(Results("companies", EmptyList))

C4_NotFoundOnEmptySearch ==
    SearchCameBackEmpty =>
        /\ pc = "done"
        /\ Returned
        /\ outcome.value = [status |-> "not_found",
                            message |-> <<"No companies found matching '",
                                          Member("company_name").v, "'">>,
                            results |-> <<>>]

\* The search call failed and the request is answered.
C4_Witness ==
    /\ SearchCameBackEmpty
    /\ response.kind = "HTTPError"
    /\ Returned
    /\ reply.status = 200

(***************************************************************************)
(* C5.  When one of the first three hits cannot be processed, every later  *)
(* hit among the first three that carries both fields still has its entry  *)
(* in the returned results.                                                *)
(***************************************************************************)
C5_LaterCandidatesYieldEntries ==
    (pc = "done" /\ Returned) =>
        \A a \in 1..Len(FirstThree) :
            FirstThree[a].t # "obj" =>
                \A b \in (a + 1)..Len(FirstThree) :
                    HasBoth(FirstThree[b]) =>
                        \E k \in 1..Len(results) :
                            EntryIdentity(results[k]) = Identity(FirstThree[b])

(***************************************************************************)
(* C6.  When an officer fetch fails in transport, is answered with a       *)
(* non-2xx status or with a body of unexpected shape, the candidate's      *)
(* entry is appended with an empty officer list.                           *)
(***************************************************************************)
OfficerFetchFailed ==
    /\ Len(calls) >= 2
    /\ \/ TransportFailure(response)
       \/ Undecodable(response)
       \/ response.kind = "ok" /\ ~WellFormed(response.json, "officers")

C6_OfficerErrorsAbsorbed ==
    OfficerFetchFailed =>
        /\ results # <<>>
        /\ FetchCallFor(EntryIdentity(results[Len(results)])) = calls[Len(calls)]
        /\ results[Len(results)].officers = EmptyList

(***************************************************************************)
(* C7.  The calls of one lookup are the search call followed by one        *)
(* officer fetch for each hit processed so far that carries both fields,   *)
(* in hit order, each once: four calls at most, none before the search,    *)
(* none for a skipped hit, none repeated.                                  *)
(***************************************************************************)
C7_CallChain ==
    /\ Len(calls) <= 4
    /\ pc \in {"handler", "resolve", "search"} => calls = <<>>
    /\ (pc = "done" /\ ~NameGiven) => calls = <<>>
    /\ (pc \in {"loop", "done"} /\ NameGiven /\ HintIsStr) =>
          /\ Len(calls) >= 1
          /\ IsSearchCall(calls[1])
          /\ SubSeq(calls, 2, Len(calls))
               = [k \in 1..Len(UsableAmong(Processed)) |-> FetchCallFor(UsableAmong(Processed)[k])]

\* The longest chain: the search and three fetches, the last of which failed
\* and was not repeated.
C7_Witness ==
    /\ pc = "done"
    /\ Len(calls) = 4
    /\ TransportFailure(response)

(***************************************************************************)
(* C8.  Every lookup ends by returning a result with one of the three      *)
(* statuses; none ends in an exception.                                    *)
(***************************************************************************)
C8_AlwaysReturns ==
    (pc = "done" /\ NameGiven) =>
        /\ Returned
        /\ outcome.value.status \in {"success", "partial_results", "not_found"}

(***************************************************************************)
(* C9.  POST /api/search answers 400 with "Company name is required" and   *)
(* calls the registry not at all when company_name is missing or empty;    *)
(* otherwise it answers 200 with the result of find_company_controllers.   *)
(***************************************************************************)
C9_SearchEndpoint ==
    pc = "done" =>
        IF ~NameGiven
        THEN /\ reply = [status |-> 400, body |-> [error |-> "Company name is required"]]
             /\ calls = <<>>
        ELSE /\ reply.status = 200
             /\ Returned
             /\ reply.body = outcome.value

(***************************************************************************)
(* C10.  "CA", "ca" and "California" resolve to us_ca, "IL" and "illinois" *)
(* to us_il, no hint, an empty hint and an unknown hint to no code; the    *)
(* search call carries exactly the resolved code, or no jurisdiction_code  *)
(* when there is none, and is issued in either case.                       *)
(***************************************************************************)
ExpectedCode(hint) ==
    IF hint.t # "str" THEN None
    ELSE IF hint.v \in {"CA", "ca", "California", "CALIFORNIA"} THEN JStr("us_ca")
    ELSE IF hint.v \in {"IL", "illinois"} THEN JStr("us_il")
    ELSE None

C10_JurisdictionResolution ==
    HintIsStr =>
        /\ pc \in {"search", "loop", "done"} =>
              jurisdiction_code = ExpectedCode(Member("jurisdiction"))
        /\ pc \in {"loop", "done"} =>
              /\ Len(calls) >= 1
              /\ IsSearchCall(calls[1])
              /\ Param(calls[1], "q") = Member("company_name")
              /\ Param(calls[1], "jurisdiction_code") = ExpectedCode(Member("jurisdiction"))

\* A hint in capitals resolved, and the search call carried its code.
C10_Witness ==
    /\ Member("jurisdiction") = JStr("CALIFORNIA")
    /\ Len(calls) >= 1
    /\ Param(calls[1], "jurisdiction_code") = JStr("us_ca")

=============================================================================
